---------------------------- MODULE Spec2Model ----------------------------
(***************************************************************************)
(* Model of the Standup Agent (src/Standup_agent): the ticket extractor of *)
(* utils.py, run on character sequences, and the session-scoped credential *)
(* cache with the public operations of tools.py that read and write it.    *)
(***************************************************************************)
EXTENDS Naturals, Integers, Sequences, FiniteSets, TLC

(***************************************************************************)
(* Characters are one-character strings; a text is a sequence of them.     *)
(***************************************************************************)
UpperChars == {"A","B","C","D","E","F","G","H","I","J","K","L","M",
               "N","O","P","Q","R","S","T","U","V","W","X","Y","Z"}
LowerChars == {"a","b","c","d","e","f","g","h","i","j","k","l","m",
               "n","o","p","q","r","s","t","u","v","w","x","y","z"}
DigitChars == {"0","1","2","3","4","5","6","7","8","9"}
SpaceChars == {" ", "\n", "\t"}

LowerOf == [c \in UpperChars |->
             CASE c = "A" -> "a" [] c = "B" -> "b" [] c = "C" -> "c" [] c = "D" -> "d"
               [] c = "E" -> "e" [] c = "F" -> "f" [] c = "G" -> "g" [] c = "H" -> "h"
               [] c = "I" -> "i" [] c = "J" -> "j" [] c = "K" -> "k" [] c = "L" -> "l"
               [] c = "M" -> "m" [] c = "N" -> "n" [] c = "O" -> "o" [] c = "P" -> "p"
               [] c = "Q" -> "q" [] c = "R" -> "r" [] c = "S" -> "s" [] c = "T" -> "t"
               [] c = "U" -> "u" [] c = "V" -> "v" [] c = "W" -> "w" [] c = "X" -> "x"
               [] c = "Y" -> "y" [] c = "Z" -> "z"]

\* str.lower() on one character
Lower(c) == IF c \in UpperChars THEN LowerOf[c] ELSE c

IsUpper(c) == c \in UpperChars
IsDigit(c) == c \in DigitChars
IsSpace(c) == c \in SpaceChars
\* \w of the re module: alphanumeric or underscore
WordChars == UpperChars \cup LowerChars \cup DigitChars \cup {"_"}
IsWordChar(c) == c \in WordChars

SetMax(S) == CHOOSE x \in S : \A y \in S : y <= x

\* the characters text[from..to] (empty when to < from)
Slice(text, from, to) == [k \in 1..(IF to >= from THEN to - from + 1 ELSE 0) |-> text[from + k - 1]]

\* \b at position i: between text[i-1] and text[i]; outside the text counts as non-word
IsWordAt(text, k) == k \in 1..Len(text) /\ IsWordChar(text[k])
WordBoundary(text, i) == IsWordAt(text, i - 1) # IsWordAt(text, i)

\* greedy runs of one character class starting at pos (UpperRun: at most cap long)
RECURSIVE UpperRun(_, _, _)
UpperRun(text, pos, cap) ==
    IF cap > 0 /\ pos <= Len(text) /\ IsUpper(text[pos])
    THEN 1 + UpperRun(text, pos + 1, cap - 1) ELSE 0
RECURSIVE DigitRun(_, _)
DigitRun(text, pos) ==
    IF pos <= Len(text) /\ IsDigit(text[pos]) THEN 1 + DigitRun(text, pos + 1) ELSE 0
RECURSIVE SpaceRun(_, _)
SpaceRun(text, pos) ==
    IF pos <= Len(text) /\ IsSpace(text[pos]) THEN 1 + SpaceRun(text, pos + 1) ELSE 0

\* text[pos..] starts with word; ic: re.IGNORECASE
StartsWith(text, pos, word, ic) ==
    /\ pos + Len(word) - 1 <= Len(text)
    /\ \A k \in 1..Len(word) :
          IF ic THEN Lower(text[pos + k - 1]) = Lower(word[k])
                ELSE text[pos + k - 1] = word[k]

(***************************************************************************)
(* utils.py: SPOKEN_DIGITS, in dictionary order.                           *)
(***************************************************************************)
SPOKEN_DIGITS ==
    << [word |-> <<"z","e","r","o">>,     digit |-> "0"],
       [word |-> <<"o","n","e">>,         digit |-> "1"],
       [word |-> <<"t","w","o">>,         digit |-> "2"],
       [word |-> <<"t","h","r","e","e">>, digit |-> "3"],
       [word |-> <<"f","o","u","r">>,     digit |-> "4"],
       [word |-> <<"f","i","v","e">>,     digit |-> "5"],
       [word |-> <<"s","i","x">>,         digit |-> "6"],
       [word |-> <<"s","e","v","e","n">>, digit |-> "7"],
       [word |-> <<"e","i","g","h","t">>, digit |-> "8"],
       [word |-> <<"n","i","n","e">>,     digit |-> "9"] >>

\* the keywords of partial_pattern, in alternation order
PartialKeywords ==
    << <<"t","i","c","k","e","t">>, <<"i","s","s","u","e">>,
       <<"b","u","g">>, <<"s","t","o","r","y">> >>

\* full_pattern: [A-Z]{2,10}
MinPrefix == 2
MaxPrefix == 10
\* len(digits) >= 3
MinSpokenDigits == 3


(***************************************************************************)
(* utils.py extract_ticket_keys, tier 1: re.finditer(full_pattern, text)   *)
(* with full_pattern = \b([A-Z]{2,10}-\d+)\b.                              *)
(***************************************************************************)
\* \d+\b at pos: the longest digit run that ends on a word boundary (0: none)
DigitsThenBoundary(text, pos) ==
    LET ok == {m \in 1..DigitRun(text, pos) : WordBoundary(text, pos + m)}
    IN  IF ok = {} THEN 0 ELSE SetMax(ok)

\* length of the match of full_pattern starting exactly at pos (0: no match);
\* the quantifiers are greedy and backtrack from the longest candidate
FullMatchLen(text, pos) ==
    IF ~WordBoundary(text, pos) THEN 0
    ELSE LET run == UpperRun(text, pos, MaxPrefix)
             ok  == {n \in MinPrefix..run :
                        /\ pos + n <= Len(text)
                        /\ text[pos + n] = "-"
                        /\ DigitsThenBoundary(text, pos + n + 1) > 0}
         IN  IF ok = {} THEN 0
             ELSE LET n == SetMax(ok)
                  IN  n + 1 + DigitsThenBoundary(text, pos + n + 1)

Mention(key, confidence, type) == [key |-> key, confidence |-> confidence, type |-> type]

\* the for loop over finditer: leftmost match first, the scan resumes at its end
RECURSIVE FullScan(_, _, _)
FullScan(text, pos, tickets) ==
    IF pos > Len(text) THEN tickets
    ELSE LET n == FullMatchLen(text, pos)
         IN  IF n > 0
             THEN FullScan(text, pos + n,
                           Append(tickets, Mention(Slice(text, pos, pos + n - 1), "high", "full_key")))
             ELSE FullScan(text, pos + 1, tickets)

\* mutant of FullTier: a repeated key is emitted once
RECURSIVE DedupKeys(_, _, _)
DedupKeys(tickets, i, kept) ==
    IF i > Len(tickets) THEN kept
    ELSE DedupKeys(tickets, i + 1,
                   IF \E k \in 1..Len(kept) : kept[k].key = tickets[i].key
                   THEN kept ELSE Append(kept, tickets[i]))
FullTierDedup(text) == DedupKeys(FullScan(text, 1, <<>>), 1, <<>>)

FullTier(text) == FullScan(text, 1, <<>>)

(***************************************************************************)
(* Tier 2: re.finditer(partial_pattern, text, re.IGNORECASE) with          *)
(* partial_pattern = (?:ticket|issue|bug|story)\s+(\d+).                   *)
(***************************************************************************)
\* [len |-> length of the match at pos (0: none), digits |-> group(1)]
PartialMatchAt(text, pos) ==
    LET ok == {i \in 1..Len(PartialKeywords) :
                  /\ StartsWith(text, pos, PartialKeywords[i], TRUE)
                  /\ SpaceRun(text, pos + Len(PartialKeywords[i])) > 0
                  /\ DigitRun(text, pos + Len(PartialKeywords[i])
                                     + SpaceRun(text, pos + Len(PartialKeywords[i]))) > 0}
    IN  IF ok = {} THEN [len |-> 0, digits |-> <<>>]
        ELSE LET i  == CHOOSE j \in ok : \A k \in ok : j <= k
                 kw == Len(PartialKeywords[i])
                 sp == SpaceRun(text, pos + kw)
                 dg == DigitRun(text, pos + kw + sp)
             IN  [len |-> kw + sp + dg,
                  digits |-> Slice(text, pos + kw + sp, pos + kw + sp + dg - 1)]

\* the sequence of group(1) of the matches, in text order
RECURSIVE PartialMatches(_, _, _)
PartialMatches(text, pos, found) ==
    IF pos > Len(text) THEN found
    ELSE LET m == PartialMatchAt(text, pos)
         IN  IF m.len > 0 THEN PartialMatches(text, pos + m.len, Append(found, m.digits))
             ELSE PartialMatches(text, pos + 1, found)

\* f"{default_project}-{digits}"
SynthKey(default_project, digits) == default_project \o <<"-">> \o digits

\* any(t['key'] == key for t in tickets)
KeyEmitted(tickets, key) == \E i \in 1..Len(tickets) : tickets[i].key = key

\* mutant of PartialStep: the check for an already emitted key is missing
PartialStepNoCheck(tickets, default_project, digits) ==
    Append(tickets, Mention(SynthKey(default_project, digits), "medium", "partial_numeric"))

\* the body of the tier-2 loop for one match
PartialStep(tickets, default_project, digits) ==
    LET key == SynthKey(default_project, digits)
    IN  IF ~KeyEmitted(tickets, key)
        THEN Append(tickets, Mention(key, "medium", "partial_numeric"))
        ELSE tickets

RECURSIVE PartialLoop(_, _, _, _)
PartialLoop(matches, i, default_project, tickets) ==
    IF i > Len(matches) THEN tickets
    ELSE PartialLoop(matches, i + 1, default_project,
                     PartialStep(tickets, default_project, matches[i]))

PartialTier(text, default_project, tickets) ==
    PartialLoop(PartialMatches(text, 1, <<>>), 1, default_project, tickets)

(***************************************************************************)
(* Tier 3: re.finditer(spoken_pattern, text, re.IGNORECASE) with           *)
(* spoken_pattern = \b(zero|..|nine)(?:\s+(zero|..|nine))*  (no \b at the  *)
(* end of the pattern).                                                    *)
(***************************************************************************)
\* length of the first alternative of (zero|..|nine) matching at pos (0: none)
DigitWordLen(text, pos) ==
    LET ok == {i \in 1..Len(SPOKEN_DIGITS) : StartsWith(text, pos, SPOKEN_DIGITS[i].word, TRUE)}
    IN  IF ok = {} THEN 0
        ELSE Len(SPOKEN_DIGITS[CHOOSE j \in ok : \A k \in ok : j <= k].word)

\* (?:\s+(word))* from pos, greedy: the position right after the last repetition
RECURSIVE SpokenRepeat(_, _)
SpokenRepeat(text, pos) ==
    LET sp == SpaceRun(text, pos)
        w  == IF sp > 0 THEN DigitWordLen(text, pos + sp) ELSE 0
    IN  IF w > 0 THEN SpokenRepeat(text, pos + sp + w) ELSE pos

\* length of the match of spoken_pattern starting exactly at pos (0: no match)
SpokenMatchLen(text, pos) ==
    IF ~WordBoundary(text, pos) \/ DigitWordLen(text, pos) = 0 THEN 0
    ELSE SpokenRepeat(text, pos + DigitWordLen(text, pos)) - pos

\* the sequence of group(0) of the matches, in text order
RECURSIVE SpokenMatches(_, _, _)
SpokenMatches(text, pos, found) ==
    IF pos > Len(text) THEN found
    ELSE LET n == SpokenMatchLen(text, pos)
         IN  IF n > 0 THEN SpokenMatches(text, pos + n, Append(found, Slice(text, pos, pos + n - 1)))
             ELSE SpokenMatches(text, pos + 1, found)

\* str.split(): the maximal runs of non-whitespace characters
RECURSIVE Split(_, _, _, _)
Split(s, pos, cur, words) ==
    IF pos > Len(s) THEN (IF cur = <<>> THEN words ELSE Append(words, cur))
    ELSE IF IsSpace(s[pos])
         THEN Split(s, pos + 1, <<>>, IF cur = <<>> THEN words ELSE Append(words, cur))
         ELSE Split(s, pos + 1, Append(cur, s[pos]), words)

\* SPOKEN_DIGITS.get(word.lower(), '')
SpokenDigitOf(word) ==
    LET low == [k \in 1..Len(word) |-> Lower(word[k])]
        ok  == {i \in 1..Len(SPOKEN_DIGITS) : SPOKEN_DIGITS[i].word = low}
    IN  IF ok = {} THEN <<>> ELSE <<SPOKEN_DIGITS[CHOOSE i \in ok : TRUE].digit>>

\* ''.join(SPOKEN_DIGITS.get(word.lower(), '') for word in match.group(0).split())
RECURSIVE JoinDigits(_, _)
JoinDigits(words, i) ==
    IF i > Len(words) THEN <<>> ELSE SpokenDigitOf(words[i]) \o JoinDigits(words, i + 1)

SpokenDigits(match) == JoinDigits(Split(match, 1, <<>>, <<>>), 1)

\* mutant of SpokenStep: the check for an already emitted key is missing
SpokenStepNoCheck(tickets, default_project, match) ==
    LET digits == SpokenDigits(match)
    IN  IF Len(digits) >= MinSpokenDigits
        THEN Append(tickets, Mention(SynthKey(default_project, digits), "low", "spoken_digits"))
        ELSE tickets

\* a tier-3 step that puts its mention in front of the earlier ones
SpokenStepInFront(tickets, default_project, match) ==
    LET digits == SpokenDigits(match)
        key    == SynthKey(default_project, digits)
    IN  IF Len(digits) >= MinSpokenDigits /\ ~KeyEmitted(tickets, key)
        THEN <<Mention(key, "low", "spoken_digits")>> \o tickets
        ELSE tickets

\* the body of the tier-3 loop for one match
SpokenStep(tickets, default_project, match) ==
    LET digits == SpokenDigits(match)
        key    == SynthKey(default_project, digits)
    IN  IF Len(digits) >= MinSpokenDigits /\ ~KeyEmitted(tickets, key)
        THEN Append(tickets, Mention(key, "low", "spoken_digits"))
        ELSE tickets

RECURSIVE SpokenLoop(_, _, _, _)
SpokenLoop(matches, i, default_project, tickets) ==
    IF i > Len(matches) THEN tickets
    ELSE SpokenLoop(matches, i + 1, default_project,
                    SpokenStep(tickets, default_project, matches[i]))

SpokenTier(text, default_project, tickets) ==
    SpokenLoop(SpokenMatches(text, 1, <<>>), 1, default_project, tickets)

\* utils.py extract_ticket_keys
extract_ticket_keys(text, default_project) ==
    SpokenTier(text, default_project, PartialTier(text, default_project, FullTier(text)))

(***************************************************************************)
(* utils.py parse_speakers.  A dict is a sequence of entries in insertion  *)
(* order: speakers is <<[speaker, lines]>>.                                *)
(***************************************************************************)
SetMin(S) == CHOOSE x \in S : \A y \in S : x <= y

\* the element of a one-element set; Only({F(x) : x \in {e}}) is F(e) with e
\* evaluated once, as an assignment to a local variable is
Only(S) == CHOOSE x \in S : TRUE

\* text.split('\n'): the pieces between consecutive line breaks, the start and
\* the end of the text counting as breaks
LineBreaks(text) == {0, Len(text) + 1} \cup {p \in 1..Len(text) : text[p] = "\n"}
NthBreak(breaks, n) == CHOOSE b \in breaks : Cardinality({c \in breaks : c < b}) = n - 1
SplitLines(text) ==
    [k \in 1..(Cardinality(LineBreaks(text)) - 1) |->
        Slice(text, NthBreak(LineBreaks(text), k) + 1, NthBreak(LineBreaks(text), k + 1) - 1)]

\* str.strip()
Strip(s) ==
    LET keep == {k \in 1..Len(s) : ~IsSpace(s[k])}
    IN  IF keep = {} THEN <<>> ELSE Slice(s, SetMin(keep), SetMax(keep))

IsLetter(c) == c \in UpperChars \cup LowerChars

\* [a-zA-Z\s]+ : the greedy run from pos
RECURSIVE NameRun(_, _)
NameRun(line, pos) ==
    IF pos <= Len(line) /\ (IsLetter(line[pos]) \/ IsSpace(line[pos]))
    THEN 1 + NameRun(line, pos + 1) ELSE 0

\* re.match(r'^([A-Z][a-zA-Z\s]+):\s*(.*)$', line): the length of group 1, 0 when
\* the line does not match; the run can only end at the ':' that follows it
SpeakerMatchLen(line) ==
    IF line # <<>> /\ IsUpper(line[1])
    THEN LET n == NameRun(line, 2)
         IN  IF n >= 1 /\ 2 + n <= Len(line) /\ line[2 + n] = ":" THEN 1 + n ELSE 0
    ELSE 0

\* the position of name in the dict (0: not a key)
SpeakerIndex(speakers, name) ==
    LET at == {i \in 1..Len(speakers) : speakers[i].speaker = name}
    IN  IF at = {} THEN 0 ELSE CHOOSE i \in at : TRUE

\* if current_speaker not in speakers: speakers[current_speaker] = []
AddSpeaker(speakers, name) ==
    IF SpeakerIndex(speakers, name) = 0
    THEN Append(speakers, [speaker |-> name, lines |-> <<>>])
    ELSE speakers

\* speakers[current_speaker].append(content)
AppendLine(speakers, name, content) ==
    [speakers EXCEPT ![SpeakerIndex(speakers, name)].lines = Append(@, content)]

\* an attributed line: group 1 is line[1..n]
AttributedLine(acc, line, n) ==
    Only({ [speakers |-> IF content # <<>> THEN AppendLine(added, name, content) ELSE added,
            current_speaker |-> name] :
              name    \in {Strip(Slice(line, 1, n))},
              content \in {Strip(Slice(line, n + 2, Len(line)))},
              added   \in {AddSpeaker(acc.speakers, Strip(Slice(line, 1, n)))} })

\* mutant of SpeakerStep: a line without attribution goes to the first speaker seen
SpeakerStepFirstSpeaker(acc, line) ==
    IF SpeakerMatchLen(line) > 0
    THEN AttributedLine(acc, line, SpeakerMatchLen(line))
    ELSE IF acc.current_speaker # <<>> /\ line # <<>>
         THEN [acc EXCEPT !.speakers = AppendLine(@, acc.speakers[1].speaker, line)]
         ELSE acc

\* the body of the loop for one stripped line; current_speaker = <<>> stands for None
SpeakerStep(acc, line) ==
    IF SpeakerMatchLen(line) > 0
    THEN AttributedLine(acc, line, SpeakerMatchLen(line))
    ELSE IF acc.current_speaker # <<>> /\ line # <<>>
         THEN [acc EXCEPT !.speakers = AppendLine(@, acc.current_speaker, line)]
         ELSE acc

RECURSIVE SpeakerLoop(_, _, _)
SpeakerLoop(lines, i, acc) ==
    IF i > Len(lines) THEN acc
    ELSE Only({ SpeakerLoop(lines, i + 1, next) :
                   next \in { SpeakerStep(a, l) : a \in {acc}, l \in {Strip(lines[i])} } })

\* utils.py parse_speakers
parse_speakers(text) ==
    Only({ SpeakerLoop(lines, 1, [speakers |-> <<>>, current_speaker |-> <<>>]).speakers :
              lines \in {SplitLines(text)} })

(***************************************************************************)
(* tools.py parse_transcript: the ticket_contexts dict, a sequence of      *)
(* [key, confidence, type, speakers, mentions] in insertion order.         *)
(***************************************************************************)
\* sub in line
Contains(line, sub) ==
    \E p \in 1..(Len(line) + 1) :
        /\ p + Len(sub) - 1 <= Len(line)
        /\ \A k \in 1..Len(sub) : line[p + k - 1] = sub[k]

\* ticket_key.split('-')[1]: what lies between the first '-' and the next one
NumericSuffix(key) ==
    LET first == SetMin({p \in 1..Len(key) : key[p] = "-"})
        later == {p \in (first + 1)..Len(key) : key[p] = "-"}
    IN  Slice(key, first + 1, IF later = {} THEN Len(key) ELSE SetMin(later) - 1)

\* [line for line in lines if ticket_key in line or any(suffix in line for line in lines)]:
\* the any() ranges over all the speaker's lines, whichever line is being tested
RelevantLines(lines, ticket_key) ==
    LET anyline == \E j \in 1..Len(lines) : Contains(lines[j], NumericSuffix(ticket_key))
    IN  SelectSeq(lines, LAMBDA line : Contains(line, ticket_key) \/ anyline)

\* the 'speakers' dict of one ticket: the speakers with relevant lines
RECURSIVE ContextSpeakers(_, _, _)
ContextSpeakers(speakers, i, ticket_key) ==
    IF i > Len(speakers) THEN <<>>
    ELSE LET relevant_lines == RelevantLines(speakers[i].lines, ticket_key)
         IN  (IF relevant_lines # <<>>
              THEN <<[speaker |-> speakers[i].speaker, lines |-> relevant_lines]>>
              ELSE <<>>) \o ContextSpeakers(speakers, i + 1, ticket_key)

\* ticket_contexts[ticket_key] = {...}: a repeated key overwrites its entry in place
SetContext(ticket_contexts, entry) ==
    LET at == {i \in 1..Len(ticket_contexts) : ticket_contexts[i].key = entry.key}
    IN  IF at = {} THEN Append(ticket_contexts, entry)
        ELSE [ticket_contexts EXCEPT ![CHOOSE i \in at : TRUE] = entry]

\* the entry made for one ticket
ContextEntry(ticket, speakers) ==
    [key        |-> ticket.key,
     confidence |-> ticket.confidence,
     type       |-> ticket.type,
     speakers   |-> ContextSpeakers(speakers, 1, ticket.key),
     mentions   |-> <<>>]

RECURSIVE TicketContexts(_, _, _, _)
TicketContexts(tickets, i, speakers, ticket_contexts) ==
    IF i > Len(tickets) THEN ticket_contexts
    ELSE Only({ TicketContexts(tickets, i + 1, speakers, SetContext(c, entry)) :
                   c \in {ticket_contexts},
                   entry \in {ContextEntry(tickets[i], speakers)} })

(***************************************************************************)
(* utils.py extract_date_from_transcript: the two date_patterns, searched  *)
(* with re.IGNORECASE, and dateutil's parser.parse on the matched group.   *)
(* A date is [day, month, year]; NoDate stands for None.                   *)
(***************************************************************************)
MonthAbbrs ==
    << <<"J","a","n">>, <<"F","e","b">>, <<"M","a","r">>, <<"A","p","r">>,
       <<"M","a","y">>, <<"J","u","n">>, <<"J","u","l">>, <<"A","u","g">>,
       <<"S","e","p">>, <<"O","c","t">>, <<"N","o","v">>, <<"D","e","c">> >>
MonthNames ==
    << <<"J","a","n","u","a","r","y">>, <<"F","e","b","r","u","a","r","y">>,
       <<"M","a","r","c","h">>, <<"A","p","r","i","l">>, <<"M","a","y">>,
       <<"J","u","n","e">>, <<"J","u","l","y">>, <<"A","u","g","u","s","t">>,
       <<"S","e","p","t","e","m","b","e","r">>, <<"O","c","t","o","b","e","r">>,
       <<"N","o","v","e","m","b","e","r">>, <<"D","e","c","e","m","b","e","r">> >>
MeetingWords == << <<"s","t","a","n","d","u","p">>, <<"m","e","e","t","i","n","g">> >>
LinkWords    == << <<"f","o","r">>, <<"o","n">> >>

\* \d{1,2}
MaxDayDigits == 2
\* \d{4}
YearDigits == 4

\* the length of the alternative of words that text has at pos (0: none); no
\* alternative of the patterns is a prefix of another one tried before it
AltLen(text, pos, words) ==
    LET ok == {i \in 1..Len(words) : StartsWith(text, pos, words[i], TRUE)}
    IN  IF ok = {} THEN 0 ELSE Len(words[SetMin(ok)])

\* [a-z]* under re.IGNORECASE: the greedy run of letters from pos
RECURSIVE LetterRun(_, _)
LetterRun(text, pos) ==
    IF pos <= Len(text) /\ IsLetter(text[pos]) THEN 1 + LetterRun(text, pos + 1) ELSE 0

\* The parts of a pattern are matched one after the other: each takes the
\* position the part before it ended at and gives the position after its own
\* match; 0 stands for "no match" and is handed on.

\* one of the alternatives in words
AfterAlt(text, pos, words) ==
    IF pos > 0 /\ AltLen(text, pos, words) > 0 THEN pos + AltLen(text, pos, words) ELSE 0

\* \s+
AfterSpaces(text, pos) ==
    IF pos > 0 /\ SpaceRun(text, pos) > 0 THEN pos + SpaceRun(text, pos) ELSE 0

\* \d{1,2} with whitespace to follow: the run of digits ends within two digits
AfterDay(text, pos) ==
    IF pos > 0 /\ DigitRun(text, pos) \in 1..MaxDayDigits THEN pos + DigitRun(text, pos) ELSE 0

\* \d{4}
AfterYear(text, pos) ==
    IF pos > 0 /\ DigitRun(text, pos) >= YearDigits THEN pos + YearDigits ELSE 0

\* [a-z]* under re.IGNORECASE
AfterLetters(text, pos) == IF pos > 0 THEN pos + LetterRun(text, pos) ELSE 0

\* (?:\s+\d{4})? : taken when it matches
AfterOptionalYear(text, pos) ==
    IF AfterYear(text, AfterSpaces(text, pos)) > 0
    THEN AfterYear(text, AfterSpaces(text, pos)) ELSE pos

\* (?:standup|meeting)\s+(?:for|on)\s+ : where group 1 starts
GroupStartA(text, pos) ==
    AfterSpaces(text, AfterAlt(text, AfterSpaces(text, AfterAlt(text, pos, MeetingWords)),
                               LinkWords))

\* \d{1,2}\s+(?:Jan|...|Dec)[a-z]*(?:\s+\d{4})? : where group 1 ends
GroupEndA(text, pos) ==
    AfterOptionalYear(text,
        AfterLetters(text, AfterAlt(text, AfterSpaces(text, AfterDay(text, pos)), MonthAbbrs)))

\* the first date pattern at pos; group 1 as [from, to], or [0, 0]
PatternAAt(text, pos) ==
    IF GroupEndA(text, GroupStartA(text, pos)) > 0
    THEN [from |-> GroupStartA(text, pos), to |-> GroupEndA(text, GroupStartA(text, pos)) - 1]
    ELSE [from |-> 0, to |-> 0]

\* (\d{1,2}\s+(?:January|...|December)\s+\d{4}) : where group 1 ends
GroupEndB(text, pos) ==
    AfterYear(text,
        AfterSpaces(text, AfterAlt(text, AfterSpaces(text, AfterDay(text, pos)), MonthNames)))

\* the second date pattern at pos
PatternBAt(text, pos) ==
    IF GroupEndB(text, pos) > 0
    THEN [from |-> pos, to |-> GroupEndB(text, pos) - 1]
    ELSE [from |-> 0, to |-> 0]

\* re.search(pattern, text, re.IGNORECASE).group(1): the leftmost match; which: "a", "b"
SearchDate(text, which) ==
    LET at(p) == IF which = "a" THEN PatternAAt(text, p) ELSE PatternBAt(text, p)
        ok    == {p \in 1..Len(text) : at(p).from > 0}
    IN  IF ok = {} THEN [found |-> FALSE, group |-> <<>>]
        ELSE Only({ [found |-> TRUE, group |-> Slice(text, g.from, g.to)] :
                       g \in {at(SetMin(ok))} })

\* int() of a run of digits, and str() of a natural number
DigitValue(c) ==
    CASE c = "0" -> 0 [] c = "1" -> 1 [] c = "2" -> 2 [] c = "3" -> 3 [] c = "4" -> 4
      [] c = "5" -> 5 [] c = "6" -> 6 [] c = "7" -> 7 [] c = "8" -> 8 [] c = "9" -> 9
DigitChar(n) ==
    CASE n = 0 -> "0" [] n = 1 -> "1" [] n = 2 -> "2" [] n = 3 -> "3" [] n = 4 -> "4"
      [] n = 5 -> "5" [] n = 6 -> "6" [] n = 7 -> "7" [] n = 8 -> "8" [] n = 9 -> "9"
\* the value of the first n digits
RECURSIVE NumValueTo(_, _)
NumValueTo(digits, n) ==
    IF n = 0 THEN 0 ELSE 10 * NumValueTo(digits, n - 1) + DigitValue(digits[n])
NumValue(digits) == NumValueTo(digits, Len(digits))
RECURSIVE NumChars(_)
NumChars(n) ==
    IF n < 10 THEN <<DigitChar(n)>> ELSE Append(NumChars(n \div 10), DigitChar(n % 10))

IsLeap(year) == (year % 4 = 0 /\ year % 100 # 0) \/ year % 400 = 0
DaysIn(month, year) ==
    IF month = 2 THEN (IF IsLeap(year) THEN 29 ELSE 28)
    ELSE IF month \in {4, 6, 9, 11} THEN 30 ELSE 31

NoDate == [day |-> 0, month |-> 0, year |-> 0]

\* the month a word names for dateutil: a three-letter abbreviation, "sept" or
\* the full name, in any case (0: the word is no month)
MonthOf(word) ==
    LET low   == [k \in 1..Len(word) |-> Lower(word[k])]
        lower(w) == [k \in 1..Len(w) |-> Lower(w[k])]
        ok    == {i \in 1..12 : low = lower(MonthAbbrs[i]) \/ low = lower(MonthNames[i])}
    IN  IF low = <<"s","e","p","t">> THEN 9
        ELSE IF ok = {} THEN 0 ELSE SetMin(ok)

\* dateutil's two-digit year: this century, moved to within fifty years of today
ConvertYear(year, this_year) ==
    IF year >= 100 THEN year
    ELSE LET y == year + 100 * (this_year \div 100)
         IN  IF y >= this_year + 50 THEN y - 100
             ELSE IF y < this_year - 50 THEN y + 100 ELSE y

\* dateutil parser.parse(group) for a group "<1-2 digits> <word>[ <4 digits>]";
\* default: today on the local clock, which supplies what the string leaves
\* out.  Without a year a number above 31 is read as the year.  The result is
\* [raised, date]: an unknown word or a day the month does not have raises.
ParseFields(num, month, given, given_year, default) ==
    LET year  == IF given THEN given_year
                 ELSE IF num > 31 THEN ConvertYear(num, default.year) ELSE default.year
        day   == IF given \/ num <= 31 THEN num
                 ELSE IF default.day > DaysIn(month, year) THEN DaysIn(month, year)
                 ELSE default.day
    IN  IF month = 0 \/ year < 1 \/ day < 1 \/ day > DaysIn(month, year)
        THEN [raised |-> TRUE, date |-> NoDate]
        ELSE [raised |-> FALSE, date |-> [day |-> day, month |-> month, year |-> year]]

ParseWords(words, default) ==
    Only({ ParseFields(num, month, Len(words) = 3, year, default) :
              num   \in {NumValue(words[1])},
              month \in {MonthOf(words[2])},
              year  \in {IF Len(words) = 3 THEN NumValue(words[3]) ELSE 0} })

ParseDate(group, default) ==
    Only({ ParseWords(words, default) : words \in {Split(group, 1, <<>>, <<>>)} })

\* a loop over date_patterns that a parse failure ends: the first pattern that
\* matches decides, and nothing is tried after a parse that raises
DateLoopFirstMatchOnly(text, i, default) ==
    IF i <= 1 /\ SearchDate(text, "a").found
    THEN ParseDate(SearchDate(text, "a").group, default).date
    ELSE IF i <= 2 /\ SearchDate(text, "b").found
         THEN ParseDate(SearchDate(text, "b").group, default).date
         ELSE NoDate

\* the loop over date_patterns from the i-th pattern on: the first pattern whose
\* match parses returns; a parse that raises is passed over (except: pass)
RECURSIVE DateLoop(_, _, _)
DateLoop(text, i, default) ==
    IF i > 2 THEN NoDate
    ELSE Only({ IF parsed.raised THEN DateLoop(text, i + 1, default) ELSE parsed.date :
                   parsed \in { IF match.found THEN ParseDate(match.group, default)
                                 ELSE [raised |-> TRUE, date |-> NoDate] :
                                    match \in {SearchDate(text, IF i = 1 THEN "a" ELSE "b")} } })

\* utils.py extract_date_from_transcript
extract_date_from_transcript(text, default) == DateLoop(text, 1, default)

\* date_used.strftime("%d %b %Y")
FormatDate(date_used) ==
    Only({ (IF date.day < 10 THEN <<"0">> ELSE <<>>) \o NumChars(date.day)
               \o <<" ">> \o MonthAbbrs[date.month] \o <<" ">> \o NumChars(date.year) :
              date \in {date_used} })

(***************************************************************************)
(* tools.py / utils.py: the session state (tool_context.state) and the     *)
(* operations that use it.  Every helper returns what the Python call      *)
(* returns (ret), the session state it leaves (st), the collaborator calls *)
(* it made in order (calls) and whether it ended by raising (raised).      *)
(***************************************************************************)
\* Python None; None and "" are the falsy values a cache slot can hold
NoneVal == "<None>"
Truthy(v) == v \notin {NoneVal, ""}

JiraTokens == {"tokA", "tokB"}
CloudIds   == {"cloud1", "cloud2"}

\* one collaborator call: which, with which bearer token / cloud id / ticket key,
\* and how it answered
Call(name, token, cloud, key, resp) ==
    [name |-> name, token |-> token, cloud |-> cloud, key |-> key, resp |-> resp]

Returned(ret, st, calls) == [ret |-> ret, st |-> st, calls |-> calls, raised |-> FALSE]
Raised(st, calls)        == [ret |-> NoneVal, st |-> st, calls |-> calls, raised |-> TRUE]

\* the answers tool_context.get_auth_response can give: it raises, returns nothing,
\* returns a credential without oauth2 data, or one with an access token (which may
\* be missing or empty)
AuthAnswers(tokens) ==
    { [kind |-> "raise", token |-> NoneVal], [kind |-> "none", token |-> NoneVal],
      [kind |-> "no_oauth2", token |-> NoneVal] }
       \cup { [kind |-> "cred", token |-> t] : t \in tokens \cup {NoneVal, ""} }
NoAnswer == [kind |-> "unused", token |-> NoneVal]

\* mutant of get_jira_auth: the cache is not consulted
get_jira_auth_NoCache(st, has_context, auth) ==
    IF ~has_context THEN Raised(st, <<>>)
    ELSE CASE auth.kind = "none" ->
                Returned(NoneVal, st, << Call("get_auth_response", "-", "-", "-", "none"),
                                         Call("request_credential", "-", "-", "-", "ok") >>)
           [] auth.kind = "cred" ->
                Returned(auth.token, [st EXCEPT !.jira_token = auth.token],
                         << Call("get_auth_response", "-", "-", "-", "cred") >>)
           [] OTHER -> Raised(st, << Call("get_auth_response", "-", "-", "-", auth.kind) >>)

\* mutant of get_jira_auth: a miss is not followed by request_credential
get_jira_auth_NoRequest(st, has_context, auth) ==
    IF ~has_context THEN Raised(st, <<>>)
    ELSE IF Truthy(st.jira_token) THEN Returned(st.jira_token, st, <<>>)
    ELSE CASE auth.kind = "none" ->
                Returned(NoneVal, st, << Call("get_auth_response", "-", "-", "-", "none") >>)
           [] auth.kind = "cred" ->
                Returned(auth.token, [st EXCEPT !.jira_token = auth.token],
                         << Call("get_auth_response", "-", "-", "-", "cred") >>)
           [] OTHER -> Raised(st, << Call("get_auth_response", "-", "-", "-", auth.kind) >>)

\* tools.py get_jira_auth(tool_context); has_context: tool_context is not None
get_jira_auth(st, has_context, auth) ==
    IF ~has_context THEN Raised(st, <<>>)
    ELSE IF Truthy(st.jira_token) THEN Returned(st.jira_token, st, <<>>)
    ELSE CASE auth.kind = "none" ->
                Returned(NoneVal, st, << Call("get_auth_response", "-", "-", "-", "none"),
                                         Call("request_credential", "-", "-", "-", "ok") >>)
           [] auth.kind = "cred" ->
                Returned(auth.token, [st EXCEPT !.jira_token = auth.token],
                         << Call("get_auth_response", "-", "-", "-", "cred") >>)
           [] OTHER -> Raised(st, << Call("get_auth_response", "-", "-", "-", auth.kind) >>)

\* the answers of GET accessible-resources: the request raises, a non-200 status,
\* 200 with an empty list, 200 with a first resource whose id is id
DiscoveryAnswers ==
    { [kind |-> k, id |-> NoneVal] : k \in {"raise", "non200", "empty"} }
       \cup { [kind |-> "ok", id |-> c] : c \in CloudIds }

\* mutant of get_jira_cloud_id: the discovered id is not written to the cache
get_jira_cloud_id_NoStore(st, access_token, disc) ==
    IF Truthy(st.cloud_id) THEN Returned(st.cloud_id, st, <<>>)
    ELSE CASE disc.kind = "raise" ->
                Raised(st, << Call("discovery_get", access_token, "-", "-", "raise") >>)
           [] disc.kind = "ok" ->
                Returned(disc.id, st, << Call("discovery_get", access_token, "-", "-", disc.id) >>)
           [] OTHER ->
                Returned(NoneVal, st, << Call("discovery_get", access_token, "-", "-", disc.kind) >>)

\* utils.py get_jira_cloud_id(access_token, tool_context)
get_jira_cloud_id(st, access_token, disc) ==
    IF Truthy(st.cloud_id) THEN Returned(st.cloud_id, st, <<>>)
    ELSE CASE disc.kind = "raise" ->
                Raised(st, << Call("discovery_get", access_token, "-", "-", "raise") >>)
           [] disc.kind = "ok" ->
                Returned(disc.id, [st EXCEPT !.cloud_id = disc.id],
                         << Call("discovery_get", access_token, "-", "-", disc.id) >>)
           [] OTHER ->
                Returned(NoneVal, st, << Call("discovery_get", access_token, "-", "-", disc.kind) >>)

\* what an operation hands back: the status of the returned dict ("raised" while an
\* exception is still travelling), its payload, and the invocation's trace
Outcome(op, status, message, results, st, calls, args) ==
    [op |-> op, status |-> status, message |-> message, results |-> results,
     st |-> st, calls |-> calls, args |-> args]

\* mutant of Boundary: the except clause is missing
BoundaryNoCatch(out) == out

\* try: ... except Exception as e: return {"status": "error", "error_message": str(e)}
Boundary(out) ==
    IF out.status = "raised" THEN [out EXCEPT !.status = "error", !.message = "exception text"]
    ELSE out

\* the answers of GET issue/{key}: 200 with the expected fields, 200 with a body
\* that lacks them (or is not JSON), another status, or the request raises
IssueAnswers == {"200", "200_malformed", "404", "raise"}

\* the entry the loop body of validate_jira_tickets appends for one key
IssueEntry(key, answer) ==
    CASE answer = "200" -> [key |-> key, valid |-> TRUE, error |-> ""]
      [] answer = "404" -> [key |-> key, valid |-> FALSE, error |-> "HTTP 404"]
      [] OTHER          -> [key |-> key, valid |-> FALSE, error |-> "exception text"]

\* mutant of ValidateLoop: no try/except inside the loop, an exception leaves it
RECURSIVE ValidateLoopNoInnerTry(_, _, _, _, _, _)
ValidateLoopNoInnerTry(keys, answers, i, token, cloud, acc) ==
    IF i > Len(keys) THEN acc
    ELSE LET call == Call("issue_get", token, cloud, keys[i], answers[i])
         IN  IF answers[i] \in {"raise", "200_malformed"}
             THEN [results |-> acc.results, calls |-> Append(acc.calls, call), raised |-> TRUE]
             ELSE ValidateLoopNoInnerTry(keys, answers, i + 1, token, cloud,
                      [results |-> Append(acc.results, IssueEntry(keys[i], answers[i])),
                       calls   |-> Append(acc.calls, call),
                       raised  |-> FALSE])

\* for key in ticket_keys: try: requests.get(...) ... except Exception: ...
RECURSIVE ValidateLoop(_, _, _, _, _, _)
ValidateLoop(keys, answers, i, token, cloud, acc) ==
    IF i > Len(keys) THEN acc
    ELSE ValidateLoop(keys, answers, i + 1, token, cloud,
             [results |-> Append(acc.results, IssueEntry(keys[i], answers[i])),
              calls   |-> Append(acc.calls, Call("issue_get", token, cloud, keys[i], answers[i])),
              raised  |-> FALSE])

\* tools.py validate_jira_tickets(ticket_keys, tool_context); ticket_keys is
\* [iterable, keys]: iterable = FALSE stands for an argument that is no list
validate_jira_tickets(st, ticket_keys, has_context, auth, disc, answers) ==
    LET a == get_jira_auth(st, has_context, auth)
        args == [has_context |-> has_context, iterable |-> ticket_keys.iterable,
                 keys |-> ticket_keys.keys]
    IN  IF a.raised THEN Boundary(Outcome("validate", "raised", "", <<>>, a.st, a.calls, args))
        ELSE IF ~Truthy(a.ret)
        THEN Boundary(Outcome("validate", "pending", "Awaiting Jira authentication", <<>>,
                              a.st, a.calls, args))
        ELSE LET c == get_jira_cloud_id(a.st, a.ret, disc)
             IN  IF c.raised
                 THEN Boundary(Outcome("validate", "raised", "", <<>>, c.st, a.calls \o c.calls, args))
                 ELSE IF ~Truthy(c.ret)
                 THEN Boundary(Outcome("validate", "error", "Failed to get Jira cloud ID", <<>>,
                                       c.st, a.calls \o c.calls, args))
                 ELSE IF ~ticket_keys.iterable
                 THEN Boundary(Outcome("validate", "raised", "", <<>>, c.st, a.calls \o c.calls, args))
                 ELSE LET l == ValidateLoop(ticket_keys.keys, answers, 1, a.ret, c.ret,
                                            [results |-> <<>>, calls |-> <<>>, raised |-> FALSE])
                      IN  Boundary(Outcome("validate", IF l.raised THEN "raised" ELSE "success", "",
                                           l.results, c.st, a.calls \o c.calls \o l.calls, args))

\* the answers of POST issue/{key}/comment
PostAnswers == {"200", "201", "400", "raise"}

\* mutant of PostComment: a failed POST is sent a second time
PostCommentRetry(token, cloud, ticket_key, answer) ==
    IF answer \in {"200", "201"}
    THEN << Call("comment_post", token, cloud, ticket_key, answer) >>
    ELSE << Call("comment_post", token, cloud, ticket_key, answer),
            Call("comment_post", token, cloud, ticket_key, answer) >>

\* response = requests.post(url, json=payload, headers=headers, timeout=10)
PostComment(token, cloud, ticket_key, answer) ==
    << Call("comment_post", token, cloud, ticket_key, answer) >>

\* tools.py post_jira_comment(ticket_key, adf_comment, tool_context)
post_jira_comment(st, ticket_key, has_context, auth, disc, answer) ==
    LET a == get_jira_auth(st, has_context, auth)
        args == [has_context |-> has_context, key |-> ticket_key]
    IN  IF a.raised THEN Boundary(Outcome("post", "raised", "", <<>>, a.st, a.calls, args))
        ELSE IF ~Truthy(a.ret)
        THEN Boundary(Outcome("post", "pending", "Awaiting Jira authentication", <<>>,
                              a.st, a.calls, args))
        ELSE LET c == get_jira_cloud_id(a.st, a.ret, disc)
             IN  IF c.raised
                 THEN Boundary(Outcome("post", "raised", "", <<>>, c.st, a.calls \o c.calls, args))
                 ELSE IF ~Truthy(c.ret)
                 THEN Boundary(Outcome("post", "error", "Failed to get Jira cloud ID", <<>>,
                                       c.st, a.calls \o c.calls, args))
                 ELSE LET calls == a.calls \o c.calls \o PostComment(a.ret, c.ret, ticket_key, answer)
                      IN  Boundary(Outcome("post",
                                           CASE answer \in {"200", "201"} -> "success"
                                             [] answer = "raise" -> "raised"
                                             [] OTHER -> "error",
                                           IF answer \in {"200", "201"} THEN "" ELSE "HTTP 400",
                                           <<>>, c.st, calls, args))

(***************************************************************************)
(* utils.py get_authenticated_google_services and the two operations of    *)
(* tools.py that use it.  The cached Google token info is                  *)
(* [present, token, refresh]: whether the slot is filled, the access token *)
(* (NoneVal: none) and whether a refresh token is stored.                  *)
(***************************************************************************)
GoogleTokens == {"gtok"}
RefreshedToken == "gtok_refreshed"
NoGoogleInfo == [present |-> FALSE, token |-> NoneVal, refresh |-> FALSE]
GoogleInfo(token, refresh) == [present |-> TRUE, token |-> token, refresh |-> refresh]

\* what reading the cached info can give: Credentials.from_authorized_user_info
\* raises ("malformed"), the credentials are valid, they are expired and
\* creds.refresh succeeds or raises, or they are unusable
CachedAnswers(info) ==
    IF ~info.present THEN {"unused"}
    ELSE {"malformed"}
           \cup (IF info.token # NoneVal THEN {"valid"} ELSE {"invalid"})
           \cup (IF info.token # NoneVal /\ info.refresh THEN {"refreshed", "refresh_failed"} ELSE {})
           \cup (IF info.token # NoneVal /\ ~info.refresh THEN {"invalid"} ELSE {})

\* utils.py get_authenticated_google_services; ret is "services" or NoneVal
get_authenticated_google_services(st, has_context, cached, auth, refresh) ==
    IF ~has_context THEN Raised(st, <<>>)
    ELSE LET c == CASE ~st.google.present -> [valid |-> FALSE, st |-> st, calls |-> <<>>]
                    [] cached = "valid" -> [valid |-> TRUE, st |-> st, calls |-> <<>>]
                    [] cached = "refreshed" ->
                         [valid |-> TRUE,
                          st |-> [st EXCEPT !.google = GoogleInfo(RefreshedToken, TRUE)],
                          calls |-> << Call("token_refresh", "-", "-", "-", "ok") >>]
                    [] cached = "refresh_failed" ->
                         [valid |-> FALSE, st |-> st,
                          calls |-> << Call("token_refresh", "-", "-", "-", "raise") >>]
                    [] OTHER -> [valid |-> FALSE, st |-> st, calls |-> <<>>]
         IN  IF c.valid THEN Returned("services", c.st, c.calls)
             ELSE CASE auth.kind = "none" ->
                         Returned(NoneVal, c.st,
                                  c.calls \o << Call("get_auth_response", "-", "-", "-", "none"),
                                                Call("request_credential", "-", "-", "-", "ok") >>)
                    [] auth.kind = "cred" ->
                         LET st2 == [c.st EXCEPT !.google = GoogleInfo(auth.token, refresh)]
                             gar == Call("get_auth_response", "-", "-", "-", "cred")
                         IN  IF auth.token # NoneVal
                             THEN Returned("services", st2, Append(c.calls, gar))
                             ELSE Returned(NoneVal, st2,
                                           c.calls \o << gar, Call("request_credential", "-", "-", "-", "ok") >>)
                    [] OTHER ->
                         Raised(c.st, Append(c.calls, Call("get_auth_response", "-", "-", "-", auth.kind)))

\* what follows the services: build() raises, the calendar request raises (or an
\* event lacks a field), or the events are listed
CalendarAnswers == {"build_raise", "raise", "ok"}

\* tools.py fetch_calendar_events(days_back, only_with_notes, tool_context)
fetch_calendar_events(st, has_context, cached, auth, refresh, cal) ==
    LET g == get_authenticated_google_services(st, has_context, cached, auth, refresh)
    IN  IF g.raised THEN Boundary(Outcome("fetch_events", "raised", "", <<>>, g.st, g.calls, [has_context |-> has_context]))
        ELSE IF g.ret = NoneVal
        THEN Boundary(Outcome("fetch_events", "pending", "Awaiting Google authentication", <<>>,
                              g.st, g.calls, [has_context |-> has_context]))
        ELSE CASE cal = "build_raise" ->
                    Boundary(Outcome("fetch_events", "raised", "", <<>>, g.st, g.calls, [has_context |-> has_context]))
               [] cal = "raise" ->
                    Boundary(Outcome("fetch_events", "raised", "", <<>>, g.st,
                                     Append(g.calls, Call("calendar_list", "-", "-", "-", "raise")), [has_context |-> has_context]))
               [] OTHER ->
                    Boundary(Outcome("fetch_events", "success", "", <<>>, g.st,
                                     Append(g.calls, Call("calendar_list", "-", "-", "-", "ok")), [has_context |-> has_context]))

\* get_meeting_notes also ends with an error result when the event has no Meet
\* link or no notes are found for it
NotesAnswers == {"build_raise", "raise", "no_meet_link", "no_media", "ok"}

\* tools.py get_meeting_notes(event_id, tool_context)
get_meeting_notes(st, has_context, cached, auth, refresh, cal) ==
    LET g == get_authenticated_google_services(st, has_context, cached, auth, refresh)
    IN  IF g.raised THEN Boundary(Outcome("fetch_notes", "raised", "", <<>>, g.st, g.calls, [has_context |-> has_context]))
        ELSE IF g.ret = NoneVal
        THEN Boundary(Outcome("fetch_notes", "pending", "Awaiting Google authentication", <<>>,
                              g.st, g.calls, [has_context |-> has_context]))
        ELSE LET calls == Append(g.calls, Call("calendar_get", "-", "-", "-",
                                               IF cal = "raise" THEN "raise" ELSE "ok"))
             IN  CASE cal = "build_raise" ->
                        Boundary(Outcome("fetch_notes", "raised", "", <<>>, g.st, g.calls, [has_context |-> has_context]))
                   [] cal = "raise" ->
                        Boundary(Outcome("fetch_notes", "raised", "", <<>>, g.st, calls, [has_context |-> has_context]))
                   [] cal = "no_meet_link" ->
                        Boundary(Outcome("fetch_notes", "error",
                                         "No Google Meet link found for this event", <<>>, g.st, calls, [has_context |-> has_context]))
                   [] cal = "no_media" ->
                        Boundary(Outcome("fetch_notes", "error",
                                         "No notes or transcript found for this meeting", <<>>, g.st, calls, [has_context |-> has_context]))
                   [] OTHER ->
                        Boundary(Outcome("fetch_notes", "success", "", <<>>, g.st, calls, [has_context |-> has_context]))

(***************************************************************************)
(* tools.py parse_transcript / process_manual_transcript and               *)
(* generate_jira_comment: no session state, no collaborator.               *)
(***************************************************************************)
\* get_sydney_date(): today in Australia/Sydney
get_sydney_date(now) == now.sydney

\* the dict parse_transcript returns on success
ParsedTranscript(transcript_text, project, now) ==
    Only({ [date            |-> FormatDate(IF extracted_date # NoDate THEN extracted_date
                                           ELSE get_sydney_date(now)),
            tickets         |-> found,
            speakers        |-> speakers,
            ticket_contexts |-> TicketContexts(found, 1, speakers, <<>>),
            default_project |-> project] :
              extracted_date \in {extract_date_from_transcript(transcript_text, now.local)},
              found          \in {extract_ticket_keys(transcript_text, project)},
              speakers       \in {parse_speakers(transcript_text)} })

\* tools.py parse_transcript(transcript_text, default_project); is_text = FALSE
\* stands for an argument that is no string (re.search raises); now: the clocks
parse_transcript(st, is_text, transcript_text, project, now) ==
    IF ~is_text
    THEN Boundary(Outcome("parse", "raised", "", <<>>, st, <<>>, transcript_text))
    ELSE Boundary(Outcome("parse", "success", "",
                          <<ParsedTranscript(transcript_text, project, now)>>,
                          st, <<>>, transcript_text))

\* tools.py process_manual_transcript(transcript_text, default_project)
process_manual_transcript(st, is_text, transcript_text, project, now) ==
    [parse_transcript(st, is_text, transcript_text, project, now) EXCEPT !.op = "process_manual"]

Block(type, txt, items, marks) == [type |-> type, text |-> txt, items |-> items, marks |-> marks]

AdfFooter ==
    "Generated by Standup Agent based on meeting notes; verify accuracy before relying on this content. For discrepancies, contact your Product Owner."
PreviewFooter ==
    "Generated by Standup Agent based on meeting notes; verify accuracy before relying on this content."

\* speaker sections laid out from the last speaker of the mapping to the first
RECURSIVE SpeakerBlocksLastFirst(_, _)
SpeakerBlocksLastFirst(speakers_data, i) ==
    IF i > Len(speakers_data) THEN <<>>
    ELSE SpeakerBlocksLastFirst(speakers_data, i + 1)
           \o << Block("heading", speakers_data[i].speaker, <<>>, <<>>),
                 Block("bulletList", "", speakers_data[i].points, <<>>) >>

\* the blocks appended for the speakers from the i-th on
RECURSIVE SpeakerBlocks(_, _)
SpeakerBlocks(speakers_data, i) ==
    IF i > Len(speakers_data) THEN <<>>
    ELSE << Block("heading", speakers_data[i].speaker, <<>>, <<>>),
            Block("bulletList", "", speakers_data[i].points, <<>>) >>
           \o SpeakerBlocks(speakers_data, i + 1)

\* utils.py generate_adf_comment(content, date_str, speakers_data): adf["content"]
generate_adf_comment(date_str, speakers_data) ==
    << Block("paragraph", date_str, <<>>, <<"strong">>) >>
       \o SpeakerBlocks(speakers_data, 1)
       \o << Block("paragraph", AdfFooter, <<>>, <<"em">>) >>

PreviewLine(kind, txt) == [kind |-> kind, text |-> txt]

RECURSIVE PreviewSpeakers(_, _)
PreviewSpeakers(speakers_data, i) ==
    IF i > Len(speakers_data) THEN <<>>
    ELSE << PreviewLine("speaker", speakers_data[i].speaker) >>
           \o [k \in 1..Len(speakers_data[i].points) |-> PreviewLine("bullet", speakers_data[i].points[k])]
           \o << PreviewLine("blank", "") >>
           \o PreviewSpeakers(speakers_data, i + 1)

\* the ticket_context arguments: no dict at all, a dict without 'speakers', one
\* whose 'speakers' is no mapping, one that maps a speaker to something that is
\* no list, or a mapping speaker -> list of utterances (in iteration order)
ContextInputs ==
    { [kind |-> k, speakers |-> <<>>] :
         k \in {"not_a_dict", "no_speakers", "speakers_not_a_mapping", "points_not_a_list"} }
      \cup { [kind |-> "ok", speakers |-> sp] :
               sp \in { <<>>,
                        << [speaker |-> "Alice", points |-> <<"u1", "u2">>] >>,
                        << [speaker |-> "Bob", points |-> <<"u3">>],
                           [speaker |-> "Alice", points |-> <<"u1">>] >> } }

\* tools.py generate_jira_comment(ticket_key, ticket_context, date_str, ticket_info)
generate_jira_comment(st, ticket_key, ticket_context, date_str) ==
    IF ticket_context.kind \in {"not_a_dict", "speakers_not_a_mapping", "points_not_a_list"}
    THEN Boundary(Outcome("generate", "raised", "", <<>>, st, <<>>,
                          [ticket_key |-> ticket_key, ticket_context |-> ticket_context]))
    ELSE Boundary(Outcome("generate", "success", "",
                          [adf |-> generate_adf_comment(date_str, ticket_context.speakers),
                           preview |-> << PreviewLine("title", date_str), PreviewLine("blank", "") >>
                                          \o PreviewSpeakers(ticket_context.speakers, 1)
                                          \o << PreviewLine("footer", PreviewFooter) >>],
                          st, <<>>,
                          [ticket_key |-> ticket_key, ticket_context |-> ticket_context]))

(***************************************************************************)
(* Inputs of the extractor: every concatenation of at most MaxChunks       *)
(* chunks, with each default_project of Projects.                          *)
(***************************************************************************)
MaxChunks == 4

Chunks ==
    { <<"A","B","-","1","1","1">>,
      <<"1","1","1">>,
      <<" ">>,
      <<"b","u","g"," ">>,
      <<"o","n","e"," ","O","n","e"," ">>,
      <<"o","n","e">>,
      <<"1">> }

Projects == { <<"A","B">>, <<"W","J","R">> }

RECURSIVE Concat(_, _)
Concat(cs, i) == IF i > Len(cs) THEN <<>> ELSE cs[i] \o Concat(cs, i + 1)

Texts == { Concat(cs, 1) : cs \in UNION { [1..n -> Chunks] : n \in 0..MaxChunks } }

\* the ticket keys and lists of them handed to validate_jira_tickets
MaxKeys == 2
TicketKeys == {"PROJ-1", "PROJ-2"}
KeyLists == UNION { [1..n -> TicketKeys] : n \in 0..MaxKeys }

\* the transcripts handed to parse_transcript in a session
Transcripts ==
    { <<"A","l","i","c","e",":"," ","A","B","-","1","1","1","\n","o","k">>,
      <<"h","i","\n","B","o","b",":","\n","b","u","g"," ","7","\n","A","l",":"," ","n","o">>,
      <<"s","t","a","n","d","u","p"," ","f","o","r"," ","2","7"," ","O","c","t">>,
      <<"M","e","e","t","i","n","g"," ","o","n"," ","3","1"," ","S","e","p","t","\n",
        "2"," ","m","a","y"," ","2","0","2","4">>,
      <<"2","9"," ","F","e","b","r","u","a","r","y"," ","2","0","2","5">> }
SessionTexts == {<<>>} \cup Chunks \cup Transcripts

Date(day, month, year) == [day |-> day, month |-> month, year |-> year]

\* the clocks read while parsing: the local date and the date in Sydney
Clocks ==
    { [local |-> Date(4, 11, 2026),  sydney |-> Date(5, 11, 2026)],
      [local |-> Date(31, 12, 2025), sydney |-> Date(1, 1, 2026)] }

\* the lines a transcript is made of (one of them follows a blank line), and
\* the transcripts of up to MaxLines of them
MaxLines == 3
TranscriptLines ==
    { <<"A","l",":"," ","A","B","-","7">>,
      <<"B","o"," ",":">>,
      <<"\n","b","u","g"," ","7">>,
      <<"s","t","a","n","d","u","p"," ","o","n"," ","2"," ","O","c","t">>,
      <<"M","e","e","t","i","n","g"," ","f","o","r"," ","3","1"," ","F","e","b">>,
      <<" ","2"," ","M","a","y"," ","2","0","2","4"," ">> }

\* '\n'.join(lines)
RECURSIVE JoinLines(_, _)
JoinLines(lines, i) ==
    IF i > Len(lines) THEN <<>>
    ELSE (IF i > 1 THEN <<"\n">> ELSE <<>>) \o lines[i] \o JoinLines(lines, i + 1)

TranscriptTexts ==
    { JoinLines(ls, 1) : ls \in UNION { [1..n -> TranscriptLines] : n \in 0..MaxLines } }

VARIABLES
    text, default_project,  \* the arguments of extract_ticket_keys
    tickets, extracted,     \* its return value, once it has returned
    state,                  \* tool_context.state: the session's credential cache
    last,                   \* the last invocation: operation, arguments, result, calls
    clock,                  \* the dates the clocks show while a transcript is parsed
    speakers,               \* the return value of parse_speakers(text)
    extracted_date,         \* the return value of extract_date_from_transcript(text)
    called                  \* the function that was called on text ("none": none yet)

xvars == <<text, default_project, tickets, extracted>>
pvars == <<clock, speakers, extracted_date, called>>
vars  == <<text, default_project, tickets, extracted, state, last,
           clock, speakers, extracted_date, called>>

\* no clock is read
NoClock == [local |-> NoDate, sydney |-> NoDate]

\* nothing was parsed
NotParsed ==
    /\ speakers = <<>>
    /\ extracted_date = NoDate
    /\ called = "none"

EmptyState == [jira_token |-> NoneVal, cloud_id |-> NoneVal, google |-> NoGoogleInfo]
NoInvocation ==
    [op |-> "none", status |-> "none", message |-> "", results |-> <<>>, calls |-> <<>>, args |-> <<>>]

\* what the caller sees of an invocation
Observed(out) ==
    [op |-> out.op, status |-> out.status, message |-> out.message,
     results |-> out.results, calls |-> out.calls, args |-> out.args]

InitExtract ==
    /\ text \in Texts
    /\ default_project \in Projects
    /\ tickets = <<>>
    /\ extracted = FALSE
    /\ state = EmptyState
    /\ last = NoInvocation
    /\ clock = NoClock
    /\ NotParsed

\* one call tickets = extract_ticket_keys(text, default_project)
ExtractTicketKeys ==
    /\ ~extracted
    /\ tickets' = extract_ticket_keys(text, default_project)
    /\ extracted' = TRUE
    /\ UNCHANGED <<text, default_project, state, last, pvars>>

NextExtract == ExtractTicketKeys

SpecExtract == InitExtract /\ [][NextExtract]_vars

(***************************************************************************)
(* A transcript is parsed: one call of parse_speakers, of                  *)
(* extract_date_from_transcript or of parse_transcript on it.              *)
(***************************************************************************)
InitParse ==
    /\ text \in TranscriptTexts
    /\ default_project = <<"W","J","R">>
    /\ clock = NoClock
    /\ tickets = <<>>
    /\ extracted = FALSE
    /\ state = EmptyState
    /\ last = NoInvocation
    /\ NotParsed

\* speakers = parse_speakers(text)
ParseSpeakers ==
    /\ called = "none"
    /\ speakers' = parse_speakers(text)
    /\ called' = "parse_speakers"
    /\ UNCHANGED <<xvars, state, last, clock, extracted_date>>

\* extracted_date = extract_date_from_transcript(text), on a day now
ExtractDate ==
    /\ called = "none"
    /\ \E now \in Clocks :
          /\ clock' = now
          /\ extracted_date' = extract_date_from_transcript(text, now.local)
    /\ called' = "extract_date_from_transcript"
    /\ UNCHANGED <<xvars, state, last, speakers>>

\* the calls of parse_transcript on a transcript: each project on one of the
\* days (the project acts on the tickets only, the day on the date only)
ParseCalls ==
    { call \in [project : Projects, now : Clocks] :
         (call.project = <<"A","B">>) <=> (call.now.local.year = call.now.sydney.year) }

\* parse_transcript(text, project), on a day now
ParseTranscriptCall ==
    /\ called = "none"
    /\ \E call \in ParseCalls :
          /\ default_project' = call.project
          /\ clock' = call.now
          /\ last' = Observed(parse_transcript(state, TRUE, text, call.project, call.now))
    /\ called' = "parse_transcript"
    /\ UNCHANGED <<text, tickets, extracted, state, speakers, extracted_date>>

NextParse == ParseSpeakers \/ ExtractDate \/ ParseTranscriptCall

SpecParse == InitParse /\ [][NextParse]_vars

(***************************************************************************)
(* The session: a new session has an empty cache; the agent invokes the    *)
(* seven operations in any order, one at a time, with any arguments, and   *)
(* takes each result before it invokes the next.  The answers of the       *)
(* collaborators are chosen only where the code asks for them.             *)
(***************************************************************************)
Init ==
    /\ state = EmptyState
    /\ last = NoInvocation
    /\ text = <<>>
    /\ default_project = <<"W","J","R">>
    /\ tickets = <<>>
    /\ extracted = FALSE
    /\ clock = NoClock
    /\ NotParsed

\* no invocation is under way: the agent may call a tool
Idle == last = NoInvocation

\* an operation runs to its return: the session state it leaves, the result
Return(out) ==
    /\ state' = out.st
    /\ last' = Observed(out)
    /\ UNCHANGED <<xvars, pvars>>

\* the answers get_auth_response is asked for (none when the token is cached)
JiraAuthChoices(has_context) ==
    IF has_context /\ ~Truthy(state.jira_token) THEN AuthAnswers(JiraTokens) ELSE {NoAnswer}

\* the answers the discovery request is asked for after get_jira_auth returned a
NoDiscovery == [kind |-> "unused", id |-> NoneVal]
DiscoveryChoices(a) ==
    IF ~a.raised /\ Truthy(a.ret) /\ ~Truthy(a.st.cloud_id) THEN DiscoveryAnswers ELSE {NoDiscovery}

\* whether the invocation gets past the token and the cloud id
ReachesRequests(a, disc) ==
    /\ ~a.raised /\ Truthy(a.ret)
    /\ LET c == get_jira_cloud_id(a.st, a.ret, disc) IN ~c.raised /\ Truthy(c.ret)

ValidateJiraTickets ==
    /\ Idle
    /\ \E has_context \in BOOLEAN, iterable \in BOOLEAN, keys \in KeyLists :
         \E auth \in JiraAuthChoices(has_context) :
           LET a == get_jira_auth(state, has_context, auth) IN
           \E disc \in DiscoveryChoices(a) :
             \E answers \in (IF iterable /\ ReachesRequests(a, disc)
                             THEN [1..Len(keys) -> IssueAnswers] ELSE {<<>>}) :
               /\ iterable \/ keys = <<>>
               /\ Return(validate_jira_tickets(state, [iterable |-> iterable, keys |-> keys],
                                               has_context, auth, disc, answers))

PostJiraComment ==
    /\ Idle
    /\ \E has_context \in BOOLEAN, key \in TicketKeys :
         \E auth \in JiraAuthChoices(has_context) :
           LET a == get_jira_auth(state, has_context, auth) IN
           \E disc \in DiscoveryChoices(a) :
             \E answer \in (IF ReachesRequests(a, disc) THEN PostAnswers ELSE {"unused"}) :
               Return(post_jira_comment(state, key, has_context, auth, disc, answer))

\* the answers the Google credential lookup is asked for
GoogleAuthChoices(has_context, cached) ==
    IF has_context /\ cached \notin {"valid", "refreshed"}
    THEN AuthAnswers(GoogleTokens) ELSE {NoAnswer}

FetchCalendarEvents ==
    /\ Idle
    /\ \E has_context \in BOOLEAN :
         \E cached \in (IF has_context THEN CachedAnswers(state.google) ELSE {"unused"}) :
           \E auth \in GoogleAuthChoices(has_context, cached) :
             \E refresh \in (IF auth.kind = "cred" THEN BOOLEAN ELSE {FALSE}) :
               LET g == get_authenticated_google_services(state, has_context, cached, auth, refresh) IN
               \E cal \in (IF ~g.raised /\ g.ret # NoneVal THEN CalendarAnswers ELSE {"unused"}) :
                 Return(fetch_calendar_events(state, has_context, cached, auth, refresh, cal))

GetMeetingNotes ==
    /\ Idle
    /\ \E has_context \in BOOLEAN :
         \E cached \in (IF has_context THEN CachedAnswers(state.google) ELSE {"unused"}) :
           \E auth \in GoogleAuthChoices(has_context, cached) :
             \E refresh \in (IF auth.kind = "cred" THEN BOOLEAN ELSE {FALSE}) :
               LET g == get_authenticated_google_services(state, has_context, cached, auth, refresh) IN
               \E cal \in (IF ~g.raised /\ g.ret # NoneVal THEN NotesAnswers ELSE {"unused"}) :
                 Return(get_meeting_notes(state, has_context, cached, auth, refresh, cal))

ParseTranscript ==
    /\ Idle
    /\ \E is_text \in BOOLEAN, t \in SessionTexts, project \in Projects, now \in Clocks :
         /\ is_text \/ t = <<>>
         /\ Return(parse_transcript(state, is_text, t, project, now))

ProcessManualTranscript ==
    /\ Idle
    /\ \E is_text \in BOOLEAN, t \in SessionTexts, project \in Projects, now \in Clocks :
         /\ is_text \/ t = <<>>
         /\ Return(process_manual_transcript(state, is_text, t, project, now))

GenerateJiraComment ==
    /\ Idle
    /\ \E key \in TicketKeys, ctx \in ContextInputs :
         Return(generate_jira_comment(state, key, ctx, "02 Oct 2025"))

\* agent.py: the agent takes the returned dict; the next tool call can follow
TakeResult ==
    /\ last # NoInvocation
    /\ last' = NoInvocation
    /\ UNCHANGED <<state, text, default_project, tickets, extracted, pvars>>

Next ==
    \/ TakeResult
    \/ FetchCalendarEvents
    \/ GetMeetingNotes
    \/ ParseTranscript
    \/ ValidateJiraTickets
    \/ GenerateJiraComment
    \/ PostJiraComment
    \/ ProcessManualTranscript

Spec == Init /\ [][Next]_vars

(***************************************************************************)
(* Properties of extract_ticket_keys (checked under SpecExtract).          *)
(***************************************************************************)
\* w is 2..10 uppercase letters, "-", and one or more digits
FullKeyShape(w) ==
    \E n \in MinPrefix..MaxPrefix :
        /\ Len(w) >= n + 2
        /\ \A k \in 1..n : IsUpper(w[k])
        /\ w[n + 1] = "-"
        /\ \A k \in (n + 2)..Len(w) : IsDigit(w[k])

\* the places <<i, j>> where the text holds a full key as a whole word
KeyOccurrences ==
    UNION { { <<i, j>> : j \in { e \in (i + 3)..Len(text) :
                                   /\ WordBoundary(text, e + 1)
                                   /\ FullKeyShape(Slice(text, i, e)) } }
            : i \in { b \in 1..Len(text) : WordBoundary(text, b) /\ IsUpper(text[b]) } }

OccurrenceRank(o) == Cardinality({ q \in KeyOccurrences : q[1] < o[1] }) + 1

HighMentions == SelectSeq(tickets, LAMBDA t : t.confidence = "high")

FullTierKeys == { FullTier(text)[k].key : k \in 1..Len(FullTier(text)) }
PartialTierKeys ==
    { SynthKey(default_project, PartialMatches(text, 1, <<>>)[k])
        : k \in 1..Len(PartialMatches(text, 1, <<>>)) }

SpokenTierKeys ==
    { SynthKey(default_project, SpokenDigits(SpokenMatches(text, 1, <<>>)[k]))
        : k \in { n \in 1..Len(SpokenMatches(text, 1, <<>>)) :
                    Len(SpokenDigits(SpokenMatches(text, 1, <<>>)[n])) >= MinSpokenDigits } }

\* C7 as stated: no ticket key occurs twice in the returned sequence.
C7_KeyAtMostOnce ==
    extracted => \A i, j \in 1..Len(tickets) : i < j => tickets[i].key # tickets[j].key

\* C7 amended: a key occurs more than once only as full_key mentions (one per
\* literal match of the key in the text); every other key occurs once, and the
\* mention kept for a key is that of the first tier that finds it.
C7_KeyOnceUnlessFullKey ==
    extracted =>
      /\ \A i, j \in 1..Len(tickets) :
            (i < j /\ tickets[i].key = tickets[j].key)
               => (tickets[i].type = "full_key" /\ tickets[j].type = "full_key")
      /\ \A i \in 1..Len(tickets) :
            tickets[i].type =
               IF tickets[i].key \in FullTierKeys THEN "full_key"
               ELSE IF tickets[i].key \in PartialTierKeys THEN "partial_numeric"
               ELSE "spoken_digits"

\* a key found by tiers 2 and 3 is kept once, as the partial_numeric mention
C7_Witness ==
    /\ extracted
    /\ \E i \in 1..Len(tickets) :
          /\ tickets[i].key \in PartialTierKeys \cap SpokenTierKeys
          /\ tickets[i].type = "partial_numeric"
          /\ \A j \in 1..Len(tickets) : tickets[j].key = tickets[i].key => j = i

\* C8: the high-confidence mentions are exactly the literal whole-word matches of
\* <2-10 uppercase letters>-<digits> in the text, one mention per match, in text
\* order, duplicates kept.
C8_FullTierEmitsEveryMatch ==
    extracted =>
      /\ Len(HighMentions) = Cardinality(KeyOccurrences)
      /\ \A o \in KeyOccurrences :
            /\ OccurrenceRank(o) <= Len(HighMentions)
            /\ HighMentions[OccurrenceRank(o)] = Mention(Slice(text, o[1], o[2]), "high", "full_key")

\* a key written twice in the text has two high-confidence mentions
C8_Witness ==
    /\ extracted
    /\ \E o, q \in KeyOccurrences :
          /\ o[1] < q[1]
          /\ Slice(text, o[1], o[2]) = Slice(text, q[1], q[2])
          /\ Cardinality({ k \in 1..Len(HighMentions) :
                             HighMentions[k].key = Slice(text, o[1], o[2]) }) >= 2

\* C9: a medium or low mention never carries a key that occurs earlier in the output.
C9_NoLowerTierDuplicate ==
    extracted =>
      \A j \in 1..Len(tickets) :
         tickets[j].confidence \in {"medium", "low"}
            => \A i \in 1..(j - 1) : tickets[i].key # tickets[j].key

\* a keyword+number match synthesises a key the full-key tier emitted: it is skipped
C9_Witness ==
    /\ extracted
    /\ PartialTierKeys \cap FullTierKeys # {}
    /\ \A i \in 1..Len(tickets) : tickets[i].confidence = "high"

\* w is a run of whole digit-words separated by whitespace: its words spell digits
IsDigitWordRun(w, digits) ==
    LET words == Split(w, 1, <<>>, <<>>)
    IN  /\ w # <<>> /\ ~IsSpace(w[1]) /\ ~IsSpace(w[Len(w)])
        /\ Len(words) = Len(digits)
        /\ \A k \in 1..Len(words) : SpokenDigitOf(words[k]) = <<digits[k]>>

\* the text holds, as whole words, a run of digit-words spelling digits
HasDigitWordRun(digits) ==
    \E i \in 1..Len(text) : \E j \in i..Len(text) :
        /\ WordBoundary(text, i)
        /\ WordBoundary(text, j + 1)
        /\ IsDigitWordRun(Slice(text, i, j), digits)

\* C10: a spoken_digits mention <default_project>-<digits> is emitted only when the
\* text holds a whitespace-separated run of at least three digit-words spelling
\* those digits; one or two digit-words never yield a mention, whatever follows.
C10_SpokenOnlyFromWholeWords ==
    extracted =>
      \A k \in 1..Len(tickets) :
         tickets[k].type = "spoken_digits" =>
            \E digits \in { Slice(tickets[k].key, Len(default_project) + 2, Len(tickets[k].key)) } :
               /\ Len(digits) >= MinSpokenDigits
               /\ tickets[k].key = SynthKey(default_project, digits)
               /\ HasDigitWordRun(digits)

(***************************************************************************)
(* Properties of the session (checked under Spec).                         *)
(***************************************************************************)
JiraOps   == {"validate", "post"}
GoogleOps == {"fetch_events", "fetch_notes"}
AuthCalls == {"get_auth_response", "request_credential"}
ServiceCalls == {"discovery_get", "issue_get", "comment_post", "calendar_list", "calendar_get"}

CallsNamed(inv, names) == SelectSeq(inv.calls, LAMBDA c : c.name \in names)

\* C1: once the Jira token is cached, no step removes or replaces it, and every
\* later validate_jira_tickets / post_jira_comment gets that token from
\* get_jira_auth (its requests carry it; the result is never pending) without a
\* call of get_auth_response or request_credential.
C1_CachedTokenReused ==
    [][ Truthy(state.jira_token) =>
          /\ state'.jira_token = state.jira_token
          /\ last'.op \in JiraOps =>
                /\ CallsNamed(last', AuthCalls) = <<>>
                /\ \A i \in 1..Len(last'.calls) : last'.calls[i].token = state.jira_token
                /\ last'.status # "pending" ]_vars

\* an invocation that found the token in the cache and sent requests with it
C1_Witness ==
    /\ last.op = "validate"
    /\ Truthy(state.jira_token)
    /\ CallsNamed(last, AuthCalls) = <<>>
    /\ CallsNamed(last, {"issue_get"}) # <<>>
    /\ \A i \in 1..Len(last.calls) : last.calls[i].token = state.jira_token

\* the lookup missed and get_auth_response had no exchanged credential
LookupMissed(inv) ==
    \E i \in 1..Len(inv.calls) :
        inv.calls[i].name = "get_auth_response" /\ inv.calls[i].resp = "none"

C3_TriStateResult ==
    last.op # "none" => last.status \in {"success", "pending", "error"}

\* an HTTP call raised inside validate_jira_tickets's discovery: an error result
C3_Witness ==
    /\ last.op = "validate"
    /\ last.status = "error"
    /\ \E i \in 1..Len(last.calls) :
          last.calls[i].name = "discovery_get" /\ last.calls[i].resp = "raise"

IssueCalls == CallsNamed(last, {"issue_get"})

\* the invocation had a token and a cloud id (cached before or during it)
HadTokenAndCloud ==
    /\ last.op \in JiraOps
    /\ last.args.has_context
    /\ Truthy(state.jira_token)
    /\ Truthy(state.cloud_id)

\* C4: with a token and a cloud id, validate_jira_tickets returns success with one
\* entry per input key in input order; the entry of a key whose request raised or
\* returned a non-200 status is invalid with an error text, and the entry of
\* every other key is what its own response says.
C4_OneEntryPerKey ==
    (last.op = "validate" /\ HadTokenAndCloud /\ last.args.iterable) =>
       /\ last.status = "success"
       /\ Len(last.results) = Len(last.args.keys)
       /\ Len(IssueCalls) = Len(last.args.keys)
       /\ \A i \in 1..Len(last.args.keys) :
             /\ last.results[i].key = last.args.keys[i]
             /\ IssueCalls[i].key = last.args.keys[i]
             /\ IssueCalls[i].resp \in {"raise", "404"} =>
                   (~last.results[i].valid /\ last.results[i].error # "")
             /\ IssueCalls[i].resp = "200" =>
                   (last.results[i].valid /\ last.results[i].error = "")

\* the first request raises, the second key is still validated
C4_Witness ==
    /\ last.op = "validate"
    /\ last.status = "success"
    /\ Len(last.results) >= 2
    /\ IssueCalls[1].resp = "raise" /\ ~last.results[1].valid
    /\ IssueCalls[2].resp = "200" /\ last.results[2].valid

\* C5: post_jira_comment sends at most one POST and reports success only when that
\* POST returned 200 or 201; validate_jira_tickets sends at most one GET per
\* listed key (the k-th GET is for the k-th key).
C5_SingleAttempt ==
    /\ last.op = "post" =>
          /\ Len(CallsNamed(last, {"comment_post"})) <= 1
          /\ last.status = "success" =>
                /\ Len(CallsNamed(last, {"comment_post"})) = 1
                /\ CallsNamed(last, {"comment_post"})[1].resp \in {"200", "201"}
    /\ (last.op = "validate" /\ last.args.iterable) =>
          /\ Len(IssueCalls) <= Len(last.args.keys)
          /\ \A i \in 1..Len(IssueCalls) : IssueCalls[i].key = last.args.keys[i]

\* a POST that failed: one attempt, an error result
C5_Witness ==
    /\ last.op = "post"
    /\ last.status = "error"
    /\ Len(CallsNamed(last, {"comment_post"})) = 1
    /\ CallsNamed(last, {"comment_post"})[1].resp \in {"400", "raise"}

DiscoveryCalls(inv) == CallsNamed(inv, {"discovery_get"})

\* C6: a discovery that answers with an id caches it; once cached, the id is never
\* changed and later invocations use it without a discovery request; a discovery
\* answering non-200 or an empty list caches nothing and the operation returns an
\* error; while nothing is cached, every invocation that has a token performs the
\* discovery.
C6_CloudIdGetOnce ==
    [][ /\ Truthy(state.cloud_id) =>
             /\ state'.cloud_id = state.cloud_id
             /\ DiscoveryCalls(last') = <<>>
             /\ \A i \in 1..Len(last'.calls) :
                   last'.calls[i].name \in {"issue_get", "comment_post"}
                      => last'.calls[i].cloud = state.cloud_id
        /\ \A i \in 1..Len(DiscoveryCalls(last')) :
             /\ DiscoveryCalls(last')[i].resp \in CloudIds
                   => state'.cloud_id = DiscoveryCalls(last')[i].resp
             /\ DiscoveryCalls(last')[i].resp \in {"non200", "empty"}
                   => (state'.cloud_id = state.cloud_id /\ last'.status = "error")
        /\ ( /\ ~Truthy(state.cloud_id)
             /\ last'.op \in JiraOps
             /\ last'.args.has_context
             /\ Truthy(state'.jira_token) )
             => Len(DiscoveryCalls(last')) = 1 ]_vars

\* an invocation that used the cached cloud id without a discovery request
C6_Witness ==
    /\ last.op = "post"
    /\ Truthy(state.cloud_id)
    /\ DiscoveryCalls(last) = <<>>
    /\ \E i \in 1..Len(last.calls) :
          last.calls[i].name = "comment_post" /\ last.calls[i].cloud = state.cloud_id

(***************************************************************************)
(* Properties of the parsing of a transcript (checked under SpecParse).    *)
(***************************************************************************)
\* the lines of the transcript, trimmed
TrimmedLines == [i \in 1..Len(SplitLines(text)) |-> Strip(SplitLines(text)[i])]

\* line i carries an attribution "Name:"; its name and what follows the colon
Attributed(i) == SpeakerMatchLen(TrimmedLines[i]) > 0
NameOf(i) == Strip(Slice(TrimmedLines[i], 1, SpeakerMatchLen(TrimmedLines[i])))
RestOf(i) ==
    Strip(Slice(TrimmedLines[i], SpeakerMatchLen(TrimmedLines[i]) + 2, Len(TrimmedLines[i])))

\* the speaker line i is read under: the name of the last attributed line up to
\* and including i (<<>>: no attributed line so far)
SpeakerAt(i) ==
    LET before == {j \in 1..i : Attributed(j)}
    IN  IF before = {} THEN <<>> ELSE NameOf(SetMax(before))

\* what line i says (<<>>: nothing)
Utterance(i) == IF Attributed(i) THEN RestOf(i) ELSE TrimmedLines[i]

\* what name says, in transcript order
UtterancesOf(name) ==
    LET said == SelectSeq([i \in 1..Len(TrimmedLines) |-> i],
                          LAMBDA i : SpeakerAt(i) = name /\ Utterance(i) # <<>>)
    IN  [k \in 1..Len(said) |-> Utterance(said[k])]

ParsedResult == last.results[1]

\* line mentions the ticket: it contains the key or the key's numeric suffix
MentionsTicket(line, key) == Contains(line, key) \/ Contains(line, NumericSuffix(key))

\* part is made of elements of whole, in the order they have in whole
InOrderWithin(part, whole) ==
    \E f \in [1..Len(part) -> 1..Len(whole)] :
        /\ \A k \in 1..Len(part) : part[k] = whole[f[k]]
        /\ \A k, m \in 1..Len(part) : k < m => f[k] < f[m]

\* C12: in the ticket_contexts parse_transcript builds, every utterance listed
\* for a speaker under a ticket itself mentions the ticket (the key or its
\* numeric suffix), the list keeps the transcript order, the speakers listed are
\* speakers of the transcript, and a speaker none of whose utterances mentions
\* the ticket is not listed.
C12_ContextUtterancesMentionTicket ==
    (called = "parse_transcript" /\ last.status = "success") =>
        \A c \in 1..Len(ParsedResult.ticket_contexts) :
            LET context == ParsedResult.ticket_contexts[c]
            IN  \A s \in 1..Len(context.speakers) :
                    LET listed == context.speakers[s]
                        said   == ParsedResult.speakers[
                                     SpeakerIndex(ParsedResult.speakers, listed.speaker)].lines
                    IN  /\ SpeakerIndex(ParsedResult.speakers, listed.speaker) > 0
                        /\ listed.lines # <<>>
                        /\ InOrderWithin(listed.lines, said)
                        /\ \A k \in 1..Len(listed.lines) :
                              MentionsTicket(listed.lines[k], context.key)


\* what one pattern gives: the date its leftmost match parses to, or NoDate when
\* it does not match or the parse of its match raises
PatternFound(which) == SearchDate(text, which).found
PatternRaises(which) ==
    PatternFound(which) /\ ParseDate(SearchDate(text, which).group, clock.local).raised
ParsedOrNoDate(match) ==
    IF ~match.found THEN NoDate
    ELSE Only({ IF parsed.raised THEN NoDate ELSE parsed.date :
                   parsed \in {ParseDate(match.group, clock.local)} })
PatternDate(which) == Only({ ParsedOrNoDate(match) : match \in {SearchDate(text, which)} })

\* the date the transcript resolves to: pattern (a) first, then pattern (b)
ResolvedDate ==
    Only({ IF a # NoDate THEN a ELSE PatternDate("b") : a \in {PatternDate("a")} })

\* C13: the date of a transcript is the one parsed from the match of pattern
\* (a); when (a) does not match or its parse fails, the one parsed from the
\* match of pattern (b); when neither gives a date,
\* extract_date_from_transcript returns no date and parse_transcript reports
\* the current date in Sydney.
C13_DateResolution ==
    /\ called = "extract_date_from_transcript" => extracted_date = ResolvedDate
    /\ (called = "parse_transcript" /\ last.status = "success") =>
           \E resolved \in {ResolvedDate} :
              ParsedResult.date = FormatDate(IF resolved # NoDate THEN resolved
                                             ELSE clock.sydney)

\* pattern (a) matches but its match does not parse, and pattern (b) supplies
\* the date
C13_Witness ==
    /\ called = "extract_date_from_transcript"
    /\ PatternRaises("a")
    /\ PatternFound("b")
    /\ extracted_date # NoDate
    /\ extracted_date = PatternDate("b")

\* no pattern gives a date although one matched, and parse_transcript reports
\* the date in Sydney, which is not the local date
C13_FallbackReached ==
    /\ called = "parse_transcript"
    /\ last.status = "success"
    /\ PatternRaises("a")
    /\ ResolvedDate = NoDate
    /\ clock.sydney # clock.local
    /\ ParsedResult.date = FormatDate(clock.sydney)

\* the speakers mapping generate_jira_comment was given, and what it returned
SpeakersGiven == last.args.ticket_context.speakers
AdfBlocks == last.results.adf
Preview == last.results.preview

\* the speakers and utterances of a mapping, one after the other
RECURSIVE Listing(_, _)
Listing(speakers_data, i) ==
    IF i > Len(speakers_data) THEN <<>>
    ELSE << PreviewLine("speaker", speakers_data[i].speaker) >>
           \o [k \in 1..Len(speakers_data[i].points) |->
                  PreviewLine("bullet", speakers_data[i].points[k])]
           \o Listing(speakers_data, i + 1)

IsSpeakerOrBullet(line) == line.kind \in {"speaker", "bullet"}
IsAdfFooter(block) ==
    block.type = "paragraph" /\ block.text = AdfFooter /\ block.marks = <<"em">>

\* C14: the document generate_adf_comment builds for n speakers is a title
\* paragraph, then for each speaker in the order of the mapping a heading with
\* the speaker's name and a bullet list with the speaker's utterances in order
\* and verbatim, then the italic disclaimer, which is the last block and occurs
\* once; the preview of generate_jira_comment lists the same speakers and
\* utterances in the same order and ends with its disclaimer line.
C14_CommentLayout ==
    (last.op = "generate" /\ last.status = "success") =>
        /\ Len(AdfBlocks) = 2 * Len(SpeakersGiven) + 2
        /\ AdfBlocks[1].type = "paragraph"
        /\ AdfBlocks[1].marks = <<"strong">>
        /\ \A i \in 1..Len(SpeakersGiven) :
              /\ AdfBlocks[2 * i].type = "heading"
              /\ AdfBlocks[2 * i].text = SpeakersGiven[i].speaker
              /\ AdfBlocks[2 * i + 1].type = "bulletList"
              /\ AdfBlocks[2 * i + 1].items = SpeakersGiven[i].points
        /\ IsAdfFooter(AdfBlocks[Len(AdfBlocks)])
        /\ Cardinality({k \in 1..Len(AdfBlocks) : IsAdfFooter(AdfBlocks[k])}) = 1
        /\ SelectSeq(Preview, IsSpeakerOrBullet) = Listing(SpeakersGiven, 1)
        /\ Preview[Len(Preview)] = PreviewLine("footer", PreviewFooter)

\* a comment was generated for two speakers
C14_Witness ==
    /\ last.op = "generate"
    /\ last.status = "success"
    /\ Len(SpeakersGiven) = 2
    /\ Len(AdfBlocks) = 6
    /\ AdfBlocks[2].text = SpeakersGiven[1].speaker
    /\ AdfBlocks[4].text = SpeakersGiven[2].speaker
    /\ SpeakersGiven[1].speaker # SpeakersGiven[2].speaker

(***************************************************************************)
(* The order of the mentions extract_ticket_keys returns (checked under    *)
(* SpecExtract).                                                           *)
(***************************************************************************)
TierRank(mention) ==
    CASE mention.confidence = "high" -> 1
      [] mention.confidence = "medium" -> 2
      [] mention.confidence = "low" -> 3

\* the keys the matches of the medium and of the low pattern stand for, in the
\* left-to-right order of the matches (<<>> for a run of fewer than three words)
PartialKeysInOrder ==
    [k \in 1..Len(PartialMatches(text, 1, <<>>)) |->
        SynthKey(default_project, PartialMatches(text, 1, <<>>)[k])]
SpokenKeysInOrder ==
    [k \in 1..Len(SpokenMatches(text, 1, <<>>)) |->
        IF Len(SpokenDigits(SpokenMatches(text, 1, <<>>)[k])) >= MinSpokenDigits
        THEN SynthKey(default_project, SpokenDigits(SpokenMatches(text, 1, <<>>)[k]))
        ELSE <<>>]

\* the first match that stands for key (0: none)
FirstMatchOf(keys, key) ==
    IF \E k \in 1..Len(keys) : keys[k] = key
    THEN SetMin({k \in 1..Len(keys) : keys[k] = key}) ELSE 0

MatchesOfTier(mention) ==
    IF mention.confidence = "medium" THEN PartialKeysInOrder ELSE SpokenKeysInOrder

IsPrefixOf(part, whole) ==
    Len(part) <= Len(whole) /\ part = SubSeq(whole, 1, Len(part))

C16_PendingAfterCredentialRequest ==
    /\ (last.op \in JiraOps /\ last.status = "pending") =>
          CallsNamed(last, {"request_credential"}) # <<>>
    /\ Truthy(state.jira_token) => state.jira_token \in JiraTokens

=========================================================================
